---- MODULE Spec2Model ----
\* Model of examples/cuda/convolution.cu: the tiled shared-memory kernel
\* convolution_kernel and the reference kernel convolution_naive.
\*
\* The macros of the source (image_height, block_size_y, ...) are fixed per
\* build; here one build is one value of the variable geo, chosen in Init.
\* Every thread of every thread block is a process: pc, li, lj are its
\* position in the kernel, sum its registers.  Global memory is modelled by
\* flat index, as the source addresses it.
EXTENDS Integers, FiniteSets, Sequences, TLC

\* ------------------------------------------------------------- bounds
MaxImageH == 3
MaxImageW == 2
MaxFilterH == 3
MaxFilterW == 2
MaxBlock == 2
MaxTile == 2
MaxThreads == 4
MaxLoads == 4
MaxStaged == 9
MaxTaps == 4
MaxRegs == 2
MaxSeed == 0

\* Values an uninitialised scratch cell or an out-of-bounds read may hold.
JunkVals == {0, 97}
\* Marks an output element no thread has written.
NoVal == -1

VARIABLES
    geo,        \* the build: image, filter, block and tile sizes
    seed,       \* selects the contents of the input and filter buffers
    junk,       \* what uninitialised or out-of-bounds memory holds
    input,      \* float *input, by flat index
    filter,     \* float *filter and __constant__ d_filter, by flat index
    npc,        \* convolution_naive: position of every thread
    out_naive,  \* convolution_naive: float *output, by flat index
    pc,         \* convolution_kernel: position of every thread
    li, lj,     \* convolution_kernel: the two loop counters of the phase
    sum,        \* convolution_kernel: float sum[tile_size_y][tile_size_x]
    taint,      \* registers an uninitialised scratch value has flowed into
    arrivals,   \* how often each thread has reached __syncthreads
    sh_input,   \* __shared__ sh_input of every thread block
    sh_writes,  \* per block and cell: the threads that wrote it, in order
    output,     \* convolution_kernel: float *output, by flat index
    owrites,    \* log of the stores to output
    ireads,     \* log of the loads from input
    ureads,     \* log of accumulation reads of never-written scratch cells
    early       \* accumulation reads made while the block was still staging

vars == <<geo, seed, junk, input, filter, npc, out_naive, pc, li, lj, sum,
          taint, arrivals, sh_input, sh_writes, output, owrites, ireads,
          ureads, early>>

\* ------------------------------------------------ the macros, lines 1-12
image_height == geo.image_height
image_width == geo.image_width
filter_height == geo.filter_height
filter_width == geo.filter_width
block_size_y == geo.block_size_y
block_size_x == geo.block_size_x
tile_size_y == geo.tile_size_y
tile_size_x == geo.tile_size_x

min(a, b) == IF a < b THEN a ELSE b

\* Mutant: the halo counted on one side only.
border_height_mut == filter_height \div 2
border_height == (filter_height \div 2) * 2
border_width == (filter_width \div 2) * 2
\* Mutant: half the halo added to the image height.
input_height_mut == image_height + filter_height \div 2
input_height == image_height + border_height
input_width == image_width + border_width

i_end == min(block_size_y * tile_size_y + border_height, input_height)
j_end == min(block_size_x * tile_size_x + border_width, input_width)

\* The dimensions of sh_input, line 23.
sh_rows == block_size_y * tile_size_y + border_height
sh_cols == block_size_x * tile_size_x + border_width
ShCells == (0 .. sh_rows - 1) \X (0 .. sh_cols - 1)

\* The #if of lines 30 and 75: TRUE selects the bounds-checked path.
boundary_safe ==
    \/ image_height % (block_size_y * tile_size_y) # 0
    \/ image_width % (block_size_x * tile_size_x) # 0

\* ------------------------------------------------ launch configuration
CeilDiv(a, b) == (a + b - 1) \div b

\* convolution_kernel: one block per block_size*tile_size outputs per axis.
grid_y == CeilDiv(image_height, block_size_y * tile_size_y)
grid_x == CeilDiv(image_width, block_size_x * tile_size_x)
Blocks == (0 .. grid_y - 1) \X (0 .. grid_x - 1)
\* A thread is <<blockIdx.y, blockIdx.x, threadIdx.y, threadIdx.x>>.
Threads ==
    {<<b[1], b[2], y, x>> : b \in Blocks,
                            y \in 0 .. block_size_y - 1,
                            x \in 0 .. block_size_x - 1}
BlockOf(t) == <<t[1], t[2]>>
Team(t) == {u \in Threads : BlockOf(u) = BlockOf(t)}

\* convolution_naive: blockDim = (block_size_x, block_size_y), one output
\* per thread.
naive_grid_y == CeilDiv(image_height, block_size_y)
naive_grid_x == CeilDiv(image_width, block_size_x)
NaiveThreads ==
    {<<gy, gx, y, x>> : gy \in 0 .. naive_grid_y - 1,
                        gx \in 0 .. naive_grid_x - 1,
                        y \in 0 .. block_size_y - 1,
                        x \in 0 .. block_size_x - 1}

\* ------------------------------------------------------- thread indices
ty(t) == t[3]
tx(t) == t[4]
by(t) == t[1] * block_size_y * tile_size_y
bx(t) == t[2] * block_size_x * tile_size_x
Regs == (0 .. tile_size_y - 1) \X (0 .. tile_size_x - 1)

\* ------------------------------------------------------- buffer contents
InputVal(s, k) == ((s + 2) * k + 1) % 7
FilterVal(s, k) == 1 + ((k + s) % 3)
InputBuf(s) == [k \in 0 .. input_height * input_width - 1 |-> InputVal(s, k)]
FilterBuf(s) == [k \in 0 .. filter_height * filter_width - 1 |-> FilterVal(s, k)]

\* A load from global memory; past the end of the buffer it yields whatever
\* is there.
InputRead(k) == IF k \in DOMAIN input THEN input[k] ELSE junk
FilterRead(k) == IF k \in DOMAIN filter THEN filter[k] ELSE junk

\* -------------------------------------------------------- initial state
\* Loads one thread issues in the staging loops.
LoadsPerThread == CeilDiv(i_end, block_size_y) * CeilDiv(j_end, block_size_x)

\* Scratch cells the staging loops of one launch cover.
StagedPerLaunch == i_end * j_end * grid_y * grid_x

Builds ==
    [image_height : 1 .. MaxImageH, image_width : 1 .. MaxImageW,
     filter_height : 1 .. MaxFilterH, filter_width : 1 .. MaxFilterW,
     block_size_y : 1 .. MaxBlock, block_size_x : 1 .. MaxBlock,
     tile_size_y : 1 .. MaxTile, tile_size_x : 1 .. MaxTile]

Init ==
    /\ geo \in Builds
    /\ Cardinality(Threads) <= MaxThreads
    /\ LoadsPerThread <= MaxLoads
    /\ StagedPerLaunch <= MaxStaged
    /\ filter_height * filter_width <= MaxTaps
    /\ tile_size_y * tile_size_x <= MaxRegs
    /\ seed \in 0 .. MaxSeed
    /\ junk \in JunkVals
    /\ input = InputBuf(seed)
    /\ filter = FilterBuf(seed)
    /\ npc = [n \in NaiveThreads |-> "run"]
    /\ out_naive = [k \in 0 .. image_height * image_width - 1 |-> NoVal]
    /\ pc = [t \in Threads |-> "stage"]
    /\ li = [t \in Threads |-> ty(t)]
    /\ lj = [t \in Threads |-> tx(t)]
    /\ sum = [t \in Threads |-> [r \in Regs |-> junk]]
    /\ taint = [t \in Threads |-> {}]
    /\ arrivals = [t \in Threads |-> 0]
    /\ sh_input = [b \in Blocks |-> [c \in ShCells |-> junk]]
    /\ sh_writes = [b \in Blocks |-> [c \in ShCells |-> <<>>]]
    /\ output = [k \in 0 .. image_height * image_width - 1 |-> NoVal]
    /\ owrites = {}
    /\ ireads = {}
    /\ ureads = {}
    /\ early = {}

\* ------------------------------------------- convolution_naive, 93-110
naive_x(n) == n[2] * block_size_x + n[4]
naive_y(n) == n[1] * block_size_y + n[3]

\* The k-th iteration of the loop nest of lines 102-106, j outer, i inner.
NaiveJ(k) == k \div filter_width
NaiveI(k) == k % filter_width
NaiveTerm(y, x, k) ==
    InputRead((y + NaiveJ(k)) * input_width + (x + NaiveI(k)))
        * FilterRead(NaiveJ(k) * filter_width + NaiveI(k))

RECURSIVE NaiveAcc(_, _, _)
\* sum after the first k iterations.
NaiveAcc(y, x, k) ==
    IF k = 0 THEN 0 ELSE NaiveAcc(y, x, k - 1) + NaiveTerm(y, x, k - 1)

NaiveSum(y, x) == NaiveAcc(y, x, filter_height * filter_width)

NaiveActive(n) == naive_y(n) < image_height /\ naive_x(n) < image_width

NaiveReads(n) ==
    {<<"naive", naive_y(n) + NaiveJ(k), naive_x(n) + NaiveI(k)>> :
        k \in 0 .. filter_height * filter_width - 1}

\* One thread of convolution_naive, start to end.
Naive(n) ==
    /\ npc[n] = "run"
    /\ npc' = [npc EXCEPT ![n] = "done"]
    /\ IF NaiveActive(n)
         THEN /\ out_naive' =
                    [out_naive EXCEPT ![naive_y(n) * image_width + naive_x(n)] =
                        NaiveSum(naive_y(n), naive_x(n))]
              /\ ireads' = ireads \cup NaiveReads(n)
         ELSE UNCHANGED <<out_naive, ireads>>
    /\ UNCHANGED <<geo, seed, junk, input, filter, pc, li, lj, sum, taint,
                   arrivals, sh_input, sh_writes, output, owrites, ureads,
                   early>>

\* The launches are issued in order: convolution_kernel starts when every
\* thread of convolution_naive has finished.
NaiveDone == \A n \in NaiveThreads : npc[n] = "done"

\* ------------------------------------------ convolution_kernel, 16-87
\* Staging, lines 27-40.
\* Mutant: the output pitch used for the input buffer.
StageIndex_mut(y, x) == y * image_width + x
\* The flat index of input row y, column x, lines 34 and 37.
StageIndex(y, x) == y * input_width + x
\* Mutant: the load checked against the image, not the input, extent.
LoadGuard_mut(y, x) == y < image_height /\ x < image_width
LoadGuard(y, x) == y < input_height /\ x < input_width
DoesLoad(t) ==
    IF boundary_safe THEN LoadGuard(by(t) + li[t], bx(t) + lj[t]) ELSE TRUE

InStageLoop(t) == li[t] < i_end /\ lj[t] < j_end

\* One iteration of the inner loop, lines 30-38, and the loop control that
\* follows it up to the next iteration or to the barrier.
StageLoad(t) ==
    LET b == BlockOf(t)
        c == <<li[t], lj[t]>>
        y == by(t) + li[t]
        x == bx(t) + lj[t]
    IN
    /\ NaiveDone
    /\ pc[t] = "stage"
    /\ InStageLoop(t)
    /\ IF DoesLoad(t) /\ c \in ShCells
         THEN /\ sh_input' = [sh_input EXCEPT ![b][c] = InputRead(StageIndex(y, x))]
              /\ sh_writes' = [sh_writes EXCEPT ![b][c] = Append(@, t)]
              /\ ireads' = ireads \cup {<<"kernel", y, x>>}
         ELSE UNCHANGED <<sh_input, sh_writes, ireads>>
    /\ IF lj[t] + block_size_x < j_end
         THEN /\ lj' = [lj EXCEPT ![t] = @ + block_size_x]
              /\ UNCHANGED <<li, pc, arrivals>>
         ELSE IF li[t] + block_size_y < i_end
                THEN /\ li' = [li EXCEPT ![t] = @ + block_size_y]
                     /\ lj' = [lj EXCEPT ![t] = tx(t)]
                     /\ UNCHANGED <<pc, arrivals>>
                ELSE /\ pc' = [pc EXCEPT ![t] = "sync"]
                     /\ arrivals' = [arrivals EXCEPT ![t] = @ + 1]
                     /\ UNCHANGED <<li, lj>>
    /\ UNCHANGED <<geo, seed, junk, input, filter, npc, out_naive, sum, taint,
                   output, owrites, ureads, early>>

\* Mutant: a thread with nothing to load returns before the barrier.
StageExit_mut(t) ==
    /\ NaiveDone
    /\ pc[t] = "stage"
    /\ ~InStageLoop(t)
    /\ pc' = [pc EXCEPT ![t] = "done"]
    /\ UNCHANGED <<geo, seed, junk, input, filter, npc, out_naive, li, lj,
                   sum, taint, arrivals, sh_input, sh_writes, output,
                   owrites, ireads, ureads, early>>

\* A thread whose loops have no iteration goes straight to the barrier.
StageExit(t) ==
    /\ NaiveDone
    /\ pc[t] = "stage"
    /\ ~InStageLoop(t)
    /\ pc' = [pc EXCEPT ![t] = "sync"]
    /\ arrivals' = [arrivals EXCEPT ![t] = @ + 1]
    /\ UNCHANGED <<geo, seed, junk, input, filter, npc, out_naive, li, lj,
                   sum, taint, sh_input, sh_writes, output, owrites, ireads,
                   ureads, early>>

\* Mutant: no barrier.
BarrierOpen_mut(t) == TRUE
\* __syncthreads, line 41: a thread leaves when every thread of its block
\* has arrived.
BarrierOpen(t) == \A u \in Team(t) : arrivals[u] >= 1

\* Line 41, then the zeroing of the registers, lines 44-51.
Barrier(t) ==
    /\ pc[t] = "sync"
    /\ BarrierOpen(t)
    /\ pc' = [pc EXCEPT ![t] = "acc"]
    /\ sum' = [sum EXCEPT ![t] = [r \in Regs |-> 0]]
    /\ li' = [li EXCEPT ![t] = 0]
    /\ lj' = [lj EXCEPT ![t] = 0]
    /\ UNCHANGED <<geo, seed, junk, input, filter, npc, out_naive, taint,
                   arrivals, sh_input, sh_writes, output, owrites, ireads,
                   ureads, early>>

\* Mutant: the filter offsets transposed.
AccCell_mut(t, r, i, j) ==
    <<ty(t) + r[1] * block_size_y + j, tx(t) + r[2] * block_size_x + i>>
\* Accumulation, lines 55-68: the scratch cell register r reads for filter
\* weight (i, j).
AccCell(t, r, i, j) ==
    <<ty(t) + r[1] * block_size_y + i, tx(t) + r[2] * block_size_x + j>>
Written(b, c) == c \in ShCells /\ sh_writes[b][c] # <<>>
ShRead(b, c) == IF c \in ShCells THEN sh_input[b][c] ELSE junk

\* One filter weight: the unrolled loops of lines 60-65.
Accumulate(t) ==
    LET b == BlockOf(t)
        i == li[t]
        j == lj[t]
        Unwritten == {r \in Regs : ~Written(b, AccCell(t, r, i, j))}
    IN
    /\ pc[t] = "acc"
    /\ sum' = [sum EXCEPT ![t] =
                 [r \in Regs |-> @[r] + ShRead(b, AccCell(t, r, i, j))
                                           * FilterRead(i * filter_width + j)]]
    /\ taint' = [taint EXCEPT ![t] = @ \cup Unwritten]
    /\ ureads' = ureads \cup {<<t, r, AccCell(t, r, i, j)>> : r \in Unwritten}
    /\ early' = IF \E u \in Team(t) : pc[u] = "stage"
                  THEN early \cup {<<t, AccCell(t, r, i, j)>> : r \in Regs}
                  ELSE early
    /\ IF j + 1 < filter_width
         THEN /\ lj' = [lj EXCEPT ![t] = j + 1]
              /\ UNCHANGED <<li, pc>>
         ELSE IF i + 1 < filter_height
                THEN /\ li' = [li EXCEPT ![t] = i + 1]
                     /\ lj' = [lj EXCEPT ![t] = 0]
                     /\ UNCHANGED pc
                ELSE /\ pc' = [pc EXCEPT ![t] = "store"]
                     /\ li' = [li EXCEPT ![t] = 0]
                     /\ lj' = [lj EXCEPT ![t] = 0]
    /\ UNCHANGED <<geo, seed, junk, input, filter, npc, out_naive, arrivals,
                   sh_input, sh_writes, output, owrites, ireads>>

\* Store, lines 72-85.
\* Mutant: an off-by-one row bound.
StoreGuard_mut(y, x) == y <= image_height /\ x < image_width
StoreGuard(y, x) == y < image_height /\ x < image_width
\* Mutant: the registers of a thread one row apart.
out_y_mut(t, yi) == by(t) + ty(t) + yi
out_y(t, yi) == by(t) + ty(t) + yi * block_size_y
out_x(t, xi) == bx(t) + tx(t) + xi * block_size_x
\* Mutant: the store never checked.
DoesStore_mut(t) == TRUE
DoesStore(t) ==
    IF boundary_safe
      THEN StoreGuard(out_y(t, li[t]), out_x(t, lj[t]))
      ELSE TRUE

\* One iteration of the inner loop, lines 75-83, for register (yi, xi).
Store(t) ==
    LET yi == li[t]
        xi == lj[t]
        y == out_y(t, yi)
        x == out_x(t, xi)
        k == y * image_width + x
    IN
    /\ pc[t] = "store"
    /\ IF DoesStore(t)
         THEN /\ output' = IF k \in DOMAIN output
                             THEN [output EXCEPT ![k] = sum[t][<<yi, xi>>]]
                             ELSE output
              /\ owrites' = owrites \cup
                     {<<t, <<yi, xi>>, y, x, <<yi, xi>> \in taint[t]>>}
         ELSE UNCHANGED <<output, owrites>>
    /\ IF xi + 1 < tile_size_x
         THEN /\ lj' = [lj EXCEPT ![t] = xi + 1]
              /\ UNCHANGED <<li, pc>>
         ELSE IF yi + 1 < tile_size_y
                THEN /\ li' = [li EXCEPT ![t] = yi + 1]
                     /\ lj' = [lj EXCEPT ![t] = 0]
                     /\ UNCHANGED pc
                ELSE /\ pc' = [pc EXCEPT ![t] = "done"]
                     /\ UNCHANGED <<li, lj>>
    /\ UNCHANGED <<geo, seed, junk, input, filter, npc, out_naive, sum, taint,
                   arrivals, sh_input, sh_writes, ireads, ureads, early>>

Next ==
    \/ \E n \in NaiveThreads : Naive(n)
    \/ \E t \in Threads : StageLoad(t)
    \/ \E t \in Threads : StageExit(t)
    \/ \E t \in Threads : Barrier(t)
    \/ \E t \in Threads : Accumulate(t)
    \/ \E t \in Threads : Store(t)

Spec == Init /\ [][Next]_vars

AllDone == NaiveDone /\ \A t \in Threads : pc[t] = "done"

\* The scheduler runs some thread that can run.  No branch of either kernel
\* depends on the contents of a buffer, so one content of uninitialised
\* memory covers the control flow.
FairInit == Init /\ junk = 0
FairSpec == FairInit /\ [][Next]_vars /\ WF_vars(Next)

\* ------------------------------------------------------------ helpers
Passed(t) == pc[t] \in {"acc", "store", "done"}
InImage(y, x) == 0 <= y /\ y < image_height /\ 0 <= x /\ x < image_width
WritesOf(t) == {w \in owrites : w[1] = t}
\* The staging iterations of thread t whose bounds check fails.
SkippedLoads(t) ==
    {c \in ShCells :
        /\ c[1] < i_end /\ c[2] < j_end
        /\ c[1] % block_size_y = ty(t) /\ c[2] % block_size_x = tx(t)
        /\ ~LoadGuard(by(t) + c[1], bx(t) + c[2])}

\* --------------------------------------------------------------- C1
\* C1: when both kernels have run, every output element of the tiled
\* kernel holds the value convolution_naive wrote for the same (y, x).
C1_TiledMatchesNaive ==
    AllDone =>
        \A k \in DOMAIN output : output[k] # NoVal /\ output[k] = out_naive[k]

C1_Witness ==
    /\ AllDone
    /\ boundary_safe
    /\ Cardinality(Blocks) > 1
    /\ border_height > 0
    /\ \E t \in Threads : Cardinality(Team(t)) > 1

\* --------------------------------------------------------------- C2
\* C2: every store to output is at a coordinate inside the image, and in
\* boundary-safe mode some thread of a bottom or right edge block ends
\* having stored fewer than tile_size_y * tile_size_x elements.
C2_StoresInsideImage ==
    /\ \A w \in owrites : InImage(w[3], w[4])
    /\ (boundary_safe /\ AllDone) =>
           \E t \in Threads :
               /\ t[1] = grid_y - 1 \/ t[2] = grid_x - 1
               /\ Cardinality(WritesOf(t)) < tile_size_y * tile_size_x

C2_Witness ==
    /\ AllDone
    /\ boundary_safe
    /\ \E t \in Threads :
           /\ WritesOf(t) # {}
           /\ Cardinality(WritesOf(t)) < tile_size_y * tile_size_x

\* --------------------------------------------------------------- C3
\* C3: no thread is in, or past, the accumulation phase while a thread of
\* its block is still staging, and no accumulation read was made while
\* the block was still staging.
C3_BarrierSeparates ==
    /\ early = {}
    /\ \A t \in Threads : Passed(t) => \A u \in Team(t) : pc[u] # "stage"

\* A thread has finished accumulating from a cell another thread staged.
C3_Witness ==
    \E t \in Threads :
        /\ pc[t] = "store"
        /\ \E r \in Regs, i \in 0 .. filter_height - 1, j \in 0 .. filter_width - 1 :
               LET c == AccCell(t, r, i, j) IN
               /\ Written(BlockOf(t), c)
               /\ sh_writes[BlockOf(t)][c][1] # t

\* --------------------------------------------------------------- C4
\* C4 as stated: in boundary-safe mode the accumulation phase never reads
\* a scratch cell that staging skipped.
C4_SkippedNeverRead ==
    boundary_safe =>
        \A u \in ureads :
            ~(\/ by(u[1]) + u[3][1] >= input_height
              \/ bx(u[1]) + u[3][2] >= input_width)

\* C4 amended: a scratch cell that staging left unwritten is read only
\* into a register whose output position is outside the image, and no
\* such register is stored.
C4_SkippedReadOnlyOutsideImage ==
    /\ \A u \in ureads : ~StoreGuard(out_y(u[1], u[2][1]), out_x(u[1], u[2][2]))
    /\ \A u \in ureads : \A w \in owrites : ~(w[1] = u[1] /\ w[2] = u[2])

C4_Witness ==
    /\ AllDone
    /\ boundary_safe
    /\ \E u \in ureads : by(u[1]) + u[3][1] >= input_height
    /\ \E u \in ureads : bx(u[1]) + u[3][2] >= input_width

\* --------------------------------------------------------------- C5
\* C5: no thread ever reaches __syncthreads a second time, and every
\* behaviour reaches a state where every thread of both kernels has
\* terminated, each thread of convolution_kernel having reached
\* __syncthreads once.
C5_BarrierOnceAndTermination ==
    /\ [](\A t \in Threads : arrivals[t] <= 1)
    /\ <>(AllDone /\ \A t \in Threads : arrivals[t] = 1)

\* All threads are done, one of them after a failed bounds check in
\* staging, and each has reached the barrier once.
C5_Witness ==
    /\ AllDone
    /\ \E t \in Threads : SkippedLoads(t) # {} /\ boundary_safe
    /\ \A t \in Threads : arrivals[t] = 1

\* --------------------------------------------------------------- C6
\* C6: two different (thread, register) pairs never store to the same
\* output element, and at the end every element of the image has been
\* stored exactly once.
C6_OutputWrittenOnce ==
    /\ \A w1, w2 \in owrites :
           (w1[3] = w2[3] /\ w1[4] = w2[4]) => (w1[1] = w2[1] /\ w1[2] = w2[2])
    /\ \A w1, w2 \in owrites :
           (w1[3] * image_width + w1[4] = w2[3] * image_width + w2[4])
               => (w1[1] = w2[1] /\ w1[2] = w2[2])
    /\ AllDone =>
           \A y \in 0 .. image_height - 1 : \A x \in 0 .. image_width - 1 :
               Cardinality({w \in owrites : w[3] = y /\ w[4] = x}) = 1

C6_Witness ==
    /\ AllDone
    /\ Cardinality(Blocks) > 1
    /\ block_size_y * block_size_x > 1
    /\ tile_size_y * tile_size_x > 1

\* --------------------------------------------------------------- C7
\* The weighted sum for (y, x) as a function of the buffer contents alone.
RECURSIVE ExpectedAcc(_, _, _)
ExpectedAcc(y, x, k) ==
    IF k = 0 THEN 0
    ELSE ExpectedAcc(y, x, k - 1)
           + InputVal(seed, (y + (k - 1) \div filter_width) * input_width
                              + x + ((k - 1) % filter_width))
             * FilterVal(seed, k - 1)
Expected(k) ==
    ExpectedAcc(k \div image_width, k % image_width, filter_height * filter_width)

\* C7: the output depends on the input and filter buffers only: no stored
\* register has taken in an uninitialised scratch value, an element once
\* written holds a value fixed by the buffers, and the final output is
\* the same for every schedule and every initial scratch content.
C7_Deterministic ==
    /\ \A w \in owrites : ~w[5]
    /\ \A k \in DOMAIN output : output[k] \in {NoVal, Expected(k)}
    /\ AllDone => output = [k \in DOMAIN output |-> Expected(k)]

C7_Witness ==
    /\ AllDone
    /\ junk # 0
    /\ ureads # {}
    /\ \E t \in Threads : taint[t] # {} /\ WritesOf(t) # {}

\* --------------------------------------------------------------- C8
\* C8: every load from input, by either kernel, is at a row below
\* input_height and a column below input_width.
C8_HaloSufficient ==
    \A r \in ireads :
        /\ 0 <= r[2] /\ r[2] < input_height
        /\ 0 <= r[3] /\ r[3] < input_width
        /\ r[2] * input_width + r[3] < input_height * input_width

\* Both kernels have read the last element of the buffer, the tiled one
\* through the unchecked path.
C8_Witness ==
    /\ AllDone
    /\ ~boundary_safe
    /\ border_height > 0
    /\ <<"naive", input_height - 1, input_width - 1>> \in ireads
    /\ <<"kernel", input_height - 1, input_width - 1>> \in ireads

\* --------------------------------------------------------------- C9
\* C9: when both image dimensions divide evenly, the bounds check of the
\* #if path is true at every load and every store the #else path makes,
\* so the two paths write the same scratch cells and output elements.
C9_ExactPathsAgree ==
    ~boundary_safe =>
        \A t \in Threads :
            /\ (pc[t] = "stage" /\ InStageLoop(t))
                   => LoadGuard(by(t) + li[t], bx(t) + lj[t])
            /\ pc[t] = "store"
                   => StoreGuard(out_y(t, li[t]), out_x(t, lj[t]))

C9_Witness ==
    /\ ~boundary_safe
    /\ Cardinality(Blocks) > 1
    /\ border_height > 0
    /\ \E t \in Threads : t[1] = grid_y - 1 /\ pc[t] = "store" /\ li[t] = tile_size_y - 1

\* -------------------------------------------------------------- C10
\* C10: once a thread is past the barrier, every cell of its block's
\* scratch tile inside the staged extent and the input buffer holds the
\* input element it stands for and was written once, by thread
\* (i mod block_size_y, j mod block_size_x); no cell is ever written
\* twice; a block that is still staging has stored nothing to output.
C10_StagingPostcondition ==
    /\ \A b \in Blocks : \A c \in ShCells : Len(sh_writes[b][c]) <= 1
    /\ \A t \in Threads :
           Passed(t) =>
               \A c \in ShCells :
                   LET y == by(t) + c[1]
                       x == bx(t) + c[2]
                   IN (/\ c[1] < min(sh_rows, image_height + border_height)
                       /\ c[2] < min(sh_cols, image_width + border_width)
                       /\ y < image_height + border_height
                       /\ x < image_width + border_width)
                      => /\ sh_input[BlockOf(t)][c]
                              = input[y * (image_width + border_width) + x]
                         /\ sh_writes[BlockOf(t)][c] =
                              << <<t[1], t[2], c[1] % block_size_y,
                                   c[2] % block_size_x>> >>
    /\ \A t \in Threads :
           (\A u \in Team(t) : ~Passed(u)) => WritesOf(t) = {}

C10_Witness ==
    \E t \in Threads :
        /\ pc[t] = "acc"
        /\ Cardinality(Team(t)) > 1
        /\ boundary_safe
        /\ \E u \in Team(t) : SkippedLoads(u) # {}
        /\ \E c \in ShCells : Written(BlockOf(t), c) /\ sh_writes[BlockOf(t)][c][1] # t

====
